---- MODULE Spec2Model ----
(***************************************************************************)
(* Model of the schema reconciliation engine of the SQL Server Git         *)
(* integration extension: the comparison of two object lists               *)
(* (SourceControlPanel._compareObjects), the on-disk snapshot              *)
(* (_syncToGit's write step, _getSavedDatabaseObjects) and the synthesis   *)
(* of CREATE TABLE text (setMissingTableDefinitions).                      *)
(*                                                                         *)
(* Text is a sequence of tokens: "dbo.T" is <<"dbo", ".", "T">>.  The      *)
(* tokens are chosen so that two token sequences are equal exactly when    *)
(* the character strings they spell are equal, and so that the substring   *)
(* ".sql" occurs exactly where the tokens ".", "sql" follow each other.    *)
(* Identifiers are non-empty and hold no path separator.                   *)
(***************************************************************************)
EXTENDS Integers, Sequences, FiniteSets, TLC

VARIABLES pc, current, saved, comparison, fs, written, writeOk, removed, queryOk,
          generalResults, pkResults, objectList, runs,
          cwd, tasks, gitLaunch, inputBox, notified, commitOk,
          panels, currentPanel, providers, currentSourceControlProvider,
          activated,
          calls, nodes, databaseDirectories, directoryTask,
          repo, initObjects, cloneUrl, initResult

vars == <<pc, current, saved, comparison, fs, written, writeOk, removed, queryOk,
          generalResults, pkResults, objectList, runs,
          cwd, tasks, gitLaunch, inputBox, notified, commitOk,
          panels, currentPanel, providers, currentSourceControlProvider,
          activated,
          calls, nodes, databaseDirectories, directoryTask,
          repo, initObjects, cloneUrl, initResult>>

cmpVars == <<current, saved, comparison>>
storeVars == <<fs, written, writeOk, removed, queryOk>>
synthVars == <<generalResults, pkResults, objectList>>

(***************************************************************************)
(* The invocations of the panel's handlers that are in flight.  _update    *)
(* and _syncToGit are async and the message handler starts them without    *)
(* awaiting: a second invocation can start while the first is suspended at *)
(* an await.  runs[r] is the invocation in slot r: its handler (kind), the *)
(* await it is suspended at (pc) and its local currentObjects (objects).   *)
(***************************************************************************)
Runs == {1, 2}

IdleRun == [kind |-> "none", pc |-> "idle", objects |-> <<>>]

NoRuns == [r \in Runs |-> IdleRun]

(***************************************************************************)
(* The state of the extension host outside the reconciliation engine.      *)
(*                                                                         *)
(* DatabaseSourceControlProvider: cwd is the working directory of the      *)
(* process (process.cwd()); tasks[t] is the invocation in slot t, the      *)
(* stack of the async functions that await each other, each frame with its *)
(* local originalCwd (orig); gitLaunch is the last command handed to       *)
(* GitManager.executeCommand with the working directory its child process  *)
(* was started in; inputBox is _sourceControl.inputBox.value, notified the *)
(* last message shown to the user and commitOk the result of the last      *)
(* "git commit".                                                           *)
(*                                                                         *)
(* SourceControlPanel: panels[p] tells whether the p-th SourceControlPanel *)
(* was constructed and whether it was disposed, currentPanel is the static *)
(* SourceControlPanel.currentPanel (NoObject for undefined).               *)
(*                                                                         *)
(* extension.ts: providers[p] is the same for the p-th                     *)
(* DatabaseSourceControlProvider, currentSourceControlProvider is the      *)
(* module variable of that name and activated tells whether the extension  *)
(* has not been deactivated.                                               *)
(*                                                                         *)
(* sqlrunner: calls[c] is the c-th call of executeQuery, with the place it *)
(* is suspended at and the state of the ConnectionPool it made.            *)
(*                                                                         *)
(* dirmanager: nodes are the database nodes of the object explorer the     *)
(* commands are invoked on, databaseDirectories is the setting             *)
(* sqlServerGitIntegration.databaseDirectories, directoryTask the          *)
(* invocation of selectAndSaveDatabaseDirectory in progress; repo is the   *)
(* tree at repoDir, and initObjects, cloneUrl and initResult are the       *)
(* arguments and the result of initializeRepoDirectoryAndFiles.            *)
(***************************************************************************)
MaxTasks == 2

Tasks == 1..MaxTasks

\* The working directory of the extension host, and this._gitDir.
OriginalDir == "W"
GitDir == "G"

NoLaunch == [command |-> "none", cwd |-> GitDir]

providerVars == <<cwd, tasks, gitLaunch, inputBox, notified, commitOk>>

MaxPanels == 3
MaxProviders == 3

Panels == 1..MaxPanels
Providers == 1..MaxProviders

\* undefined
NoObject == 0

panelVars == <<panels, currentPanel>>
extensionVars == <<providers, currentSourceControlProvider, activated>>
MaxCalls == 2

Calls == 1..MaxCalls

IdleCall == [pc |-> "idle", pool |-> "none"]

IdleTask == [pc |-> "idle", node |-> NoObject, directories |-> <<>>,
             returned |-> <<"<none>">>]

queryVars == <<calls>>
directoryVars == <<nodes, databaseDirectories, directoryTask>>
repoVars == <<repo, initObjects, cloneUrl, initResult>>
serviceVars == <<queryVars, directoryVars, repoVars>>

shellVars == <<panelVars, extensionVars, serviceVars>>

hostVars == <<providerVars, shellVars>>

\* The extension was activated and no command has run.
ObjectsIdle ==
    /\ panels = [p \in Panels |-> "none"]
    /\ currentPanel = NoObject
    /\ providers = [p \in Providers |-> "none"]
    /\ currentSourceControlProvider = NoObject
    /\ activated = TRUE

\* No query is running.
QueryIdle == calls = [c \in Calls |-> IdleCall]

\* No directory is configured and no node is selected.
DirectoryIdle ==
    /\ nodes = <<>>
    /\ databaseDirectories = <<>>
    /\ directoryTask = IdleTask

\* initializeRepoDirectoryAndFiles was not called.
RepoIdle ==
    /\ repo = [dirs |-> {}, files |-> <<>>]
    /\ initObjects = <<>>
    /\ cloneUrl = <<>>
    /\ initResult = "none"

ShellIdle == ObjectsIdle /\ QueryIdle /\ DirectoryIdle /\ RepoIdle

\* No provider exists.
ProviderIdle ==
    /\ cwd = OriginalDir
    /\ tasks = [t \in Tasks |-> <<>>]
    /\ gitLaunch = NoLaunch
    /\ inputBox = <<>>
    /\ notified = "none"
    /\ commitOk = "none"

HostIdle == ShellIdle /\ ProviderIdle

(***************************************************************************)
(* Text helpers                                                            *)
(***************************************************************************)
Dot == <<".">>

\* The value of a definition the catalog returned as NULL (a table, or an
\* encrypted module): not a text, and different from every text.
NoDefinition == <<"<null>">>

\* `${a}.${b}`
DotJoin(a, b) == a \o Dot \o b

\* The objects of a list, as a set.
Range(s) == {s[i] : i \in 1..Len(s)}

\* The (schema, name, kind) identity the specification speaks of.
Identity(obj) == <<obj.schema, obj.name, obj.type>>

Identities(list) == {Identity(list[i]) : i \in 1..Len(list)}

UniqueIdentities(list) ==
    \A i, j \in 1..Len(list) : Identity(list[i]) = Identity(list[j]) => i = j

(***************************************************************************)
(* SourceControlPanel._compareObjects                                      *)
(***************************************************************************)
\* const key = `${obj.schema}.${obj.name}.${obj.type}`
ObjectKey(obj) == DotJoin(DotJoin(obj.schema, obj.name), obj.type)

\* map.has(key) of the Map built by list.forEach(obj => map.set(key, obj))
MapHas(list, key) == \E i \in 1..Len(list) : ObjectKey(list[i]) = key

\* map.get(key) of that Map: a later set() of the same key replaces the value
MapGet(list, key) ==
    LET hits == {i \in 1..Len(list) : ObjectKey(list[i]) = key}
        last == CHOOSE i \in hits : \A j \in hits : j <= i
    IN list[last]

IsAdded(obj, savedList) == ~MapHas(savedList, ObjectKey(obj))

IsModified(obj, savedList) ==
    /\ MapHas(savedList, ObjectKey(obj))
    /\ obj.definition # MapGet(savedList, ObjectKey(obj)).definition

IsUnchanged(obj, savedList) ==
    /\ MapHas(savedList, ObjectKey(obj))
    /\ obj.definition = MapGet(savedList, ObjectKey(obj)).definition

IsDeleted(obj, currentList) == ~MapHas(currentList, ObjectKey(obj))

ModifiedPairs(currentList, savedList) ==
    LET mod == SelectSeq(currentList, LAMBDA o : IsModified(o, savedList))
    IN [i \in 1..Len(mod) |->
          [current |-> mod[i], saved |-> MapGet(savedList, ObjectKey(mod[i]))]]

\* the result lists filled with unshift instead of push: the mutant of C19
CompareObjectsUnshifting(currentList, savedList) ==
    LET Reverse(l) == [i \in 1..Len(l) |-> l[Len(l) + 1 - i]]
    IN [added     |-> Reverse(SelectSeq(currentList, LAMBDA o : IsAdded(o, savedList))),
        modified  |-> Reverse(ModifiedPairs(currentList, savedList)),
        deleted   |-> Reverse(SelectSeq(savedList, LAMBDA o : IsDeleted(o, currentList))),
        unchanged |-> Reverse(SelectSeq(currentList, LAMBDA o : IsUnchanged(o, savedList)))]

CompareObjects(currentList, savedList) ==
    [added     |-> SelectSeq(currentList, LAMBDA o : IsAdded(o, savedList)),
     modified  |-> ModifiedPairs(currentList, savedList),
     deleted   |-> SelectSeq(savedList, LAMBDA o : IsDeleted(o, currentList)),
     unchanged |-> SelectSeq(currentList, LAMBDA o : IsUnchanged(o, savedList))]

NoComparison ==
    [added |-> <<>>, modified |-> <<>>, deleted |-> <<>>, unchanged |-> <<>>]

(***************************************************************************)
(* Inputs of the comparison: every list of at most MaxCompareLen objects   *)
(* over two schemas and two names, one of each holding a dot, two kinds    *)
(* and two definitions that differ in one trailing blank.                  *)
(***************************************************************************)
MaxCompareLen == 2

CompareSchemas == {<<"a">>, <<"a", ".", "b">>}
CompareNames == {<<"c">>, <<"b", ".", "c">>}
CompareKinds == {<<"tables">>, <<"views">>}
CompareDefinitions == {<<"X">>, <<"X", " ">>}

CompareObjectSet ==
    [schema : CompareSchemas, name : CompareNames,
     type : CompareKinds, definition : CompareDefinitions]

ListsOver(S, n) == UNION {[1..k -> S] : k \in 0..n}

CompareLists == ListsOver(CompareObjectSet, MaxCompareLen)

NoFs == [dirs |-> {}, files |-> <<>>]

InitCompare ==
    /\ pc = "input"
    /\ current \in CompareLists
    /\ saved \in CompareLists
    /\ comparison = NoComparison
    /\ fs = NoFs /\ written = <<>> /\ writeOk = FALSE /\ removed = {}
    /\ queryOk = TRUE
    /\ runs = NoRuns
    /\ HostIdle
    /\ generalResults = <<>> /\ pkResults = <<>> /\ objectList = <<>>

\* _compareObjects(current, saved)
Compare ==
    /\ pc = "input"
    /\ comparison' = CompareObjects(current, saved)
    /\ pc' = "compared"
    /\ UNCHANGED <<current, saved, storeVars, synthVars, runs, hostVars>>

NextCompare == Compare

SpecCompare == InitCompare /\ [][NextCompare]_vars

(***************************************************************************)
(* C1: with unique identities in each input, every identity of either      *)
(* input occurs in exactly one of added, modified, deleted, unchanged (a   *)
(* modified pair counting once), and the lists hold no other identity.     *)
(***************************************************************************)
Occurrences(id, cmp) ==
      Cardinality({i \in 1..Len(cmp.added) : Identity(cmp.added[i]) = id})
    + Cardinality({i \in 1..Len(cmp.modified) :
                     \/ Identity(cmp.modified[i].current) = id
                     \/ Identity(cmp.modified[i].saved) = id})
    + Cardinality({i \in 1..Len(cmp.deleted) : Identity(cmp.deleted[i]) = id})
    + Cardinality({i \in 1..Len(cmp.unchanged) : Identity(cmp.unchanged[i]) = id})

ResultIdentities(cmp) ==
    Identities(cmp.added) \cup Identities(cmp.deleted) \cup Identities(cmp.unchanged)
      \cup {Identity(cmp.modified[i].current) : i \in 1..Len(cmp.modified)}
      \cup {Identity(cmp.modified[i].saved) : i \in 1..Len(cmp.modified)}

C1_Partition ==
    (pc = "compared" /\ UniqueIdentities(current) /\ UniqueIdentities(saved)) =>
        /\ \A id \in Identities(current) \cup Identities(saved) :
              Occurrences(id, comparison) = 1
        /\ ResultIdentities(comparison) \subseteq
              Identities(current) \cup Identities(saved)

(***************************************************************************)
(* C2: an identity present in both inputs is Modified exactly when the two *)
(* definitions are not equal token for token, and Unchanged otherwise; the *)
(* Modified entry carries the current object and the saved object of that  *)
(* identity.                                                               *)
(***************************************************************************)
C2_ModifiedExact ==
    (pc = "compared" /\ UniqueIdentities(current) /\ UniqueIdentities(saved)) =>
        \A i \in 1..Len(current), j \in 1..Len(saved) :
            Identity(current[i]) = Identity(saved[j]) =>
                IF current[i].definition # saved[j].definition
                THEN /\ [current |-> current[i], saved |-> saved[j]]
                            \in Range(comparison.modified)
                     /\ current[i] \notin Range(comparison.unchanged)
                ELSE /\ current[i] \in Range(comparison.unchanged)
                     /\ \A k \in 1..Len(comparison.modified) :
                            comparison.modified[k].current # current[i]

(***************************************************************************)
(* C3: added holds exactly the current objects whose identity no saved     *)
(* object has, deleted exactly the saved objects whose identity no current *)
(* object has; with saved empty every current object is added and the      *)
(* other three lists are empty.                                            *)
(***************************************************************************)
C3_AddedDeleted ==
    pc = "compared" =>
        /\ Range(comparison.added) =
              {o \in Range(current) : Identity(o) \notin Identities(saved)}
        /\ Range(comparison.deleted) =
              {o \in Range(saved) : Identity(o) \notin Identities(current)}
        /\ saved = <<>> =>
              /\ comparison.added = current
              /\ comparison.modified = <<>>
              /\ comparison.deleted = <<>>
              /\ comparison.unchanged = <<>>

(***************************************************************************)
(* setMissingTableDefinitions                                              *)
(*                                                                         *)
(* A column row is [SchemaName, TableName, ColumnName, DataType,           *)
(* max_length, precision, scale, is_nullable, is_identity, seed_value,     *)
(* increment_value]; seed_value and increment_value are {} for the         *)
(* catalog's NULL and {v} for the number v.  A primary-key row is          *)
(* [SchemaName, TableName, ConstraintName, ColumnName].                    *)
(***************************************************************************)
\* const key = `${row.SchemaName}.${row.TableName}`
TableKey(row) == DotJoin(row.SchemaName, row.TableName)

\* The keys of the Map filled by the loop over rows, in insertion order.
RECURSIVE MapKeys(_)
MapKeys(rows) ==
    IF rows = <<>> THEN <<>>
    ELSE LET front == SubSeq(rows, 1, Len(rows) - 1)
             keys == MapKeys(front)
             key == TableKey(rows[Len(rows)])
         IN IF \E i \in 1..Len(keys) : keys[i] = key THEN keys
            ELSE Append(keys, key)

\* tablesMap.get(key): the rows pushed under the key, in row order.
TablesMapGet(rows, key) == SelectSeq(rows, LAMBDA r : TableKey(r) = key)

\* pkMap.has(key)
PkMapHas(pkRows, key) == \E i \in 1..Len(pkRows) : TableKey(pkRows[i]) = key

\* pkMap.get(key): the constraint of the first row of the key, the columns
\* of all its rows.
PkMapGet(pkRows, key) ==
    LET group == SelectSeq(pkRows, LAMBDA r : TableKey(r) = key)
    IN [constraint |-> group[1].ConstraintName,
        columns |-> [i \in 1..Len(group) |-> group[i].ColumnName]]

\* text.split('.')
RECURSIVE SplitDot(_)
SplitDot(text) ==
    IF \A i \in 1..Len(text) : text[i] # "." THEN <<text>>
    ELSE LET d == CHOOSE i \in 1..Len(text) :
                      text[i] = "." /\ \A j \in 1..(i - 1) : text[j] # "."
         IN <<SubSeq(text, 1, d - 1)>> \o SplitDot(SubSeq(text, d + 1, Len(text)))

\* parts.join(sep)
RECURSIVE Join(_, _)
Join(parts, sep) ==
    IF parts = <<>> THEN <<>>
    ELSE IF Len(parts) = 1 THEN parts[1]
    ELSE parts[1] \o sep \o Join(Tail(parts), sep)

LengthTypes == {"varchar", "nvarchar", "char", "nchar", "binary", "varbinary"}
PrecisionTypes == {"decimal", "numeric"}

\* value ?? 1
OrOne(value) == IF value = {} THEN 1 ELSE CHOOSE v \in value : TRUE

\* typeDef += `(${col.max_length})` without the test for -1: the mutant of C20
TypeDefWithoutMax(col) ==
    IF col.DataType \in LengthTypes
    THEN <<col.DataType, "(", ToString(col.max_length), ")">>
    ELSE IF col.DataType \in PrecisionTypes
    THEN <<col.DataType, "(", ToString(col.precision), ",", ToString(col.scale), ")">>
    ELSE <<col.DataType>>

TypeDef(col) ==
    IF col.DataType \in LengthTypes
    THEN <<col.DataType, "(",
           IF col.max_length = -1 THEN "MAX" ELSE ToString(col.max_length), ")">>
    ELSE IF col.DataType \in PrecisionTypes
    THEN <<col.DataType, "(", ToString(col.precision), ",", ToString(col.scale), ")">>
    ELSE <<col.DataType>>

\* ` IDENTITY(1,1)` for every identity column: the mutant of C21
IdentityClauseOfOnes(col) ==
    IF col.is_identity THEN <<" IDENTITY(", "1", ",", "1", ")">> ELSE <<>>

IdentityClause(col) ==
    IF col.is_identity
    THEN <<" IDENTITY(", ToString(OrOne(col.seed_value)), ",",
           ToString(OrOne(col.increment_value)), ")">>
    ELSE <<>>

ColumnLine(col) ==
    <<"[">> \o col.ColumnName \o <<"] ">> \o TypeDef(col) \o IdentityClause(col)
        \o (IF col.is_nullable THEN <<" NULL">> ELSE <<" NOT NULL">>)

ConstraintLine(pk) ==
    <<"CONSTRAINT [">> \o pk.constraint \o <<"] PRIMARY KEY (">>
        \o Join([i \in 1..Len(pk.columns) |-> <<"[">> \o pk.columns[i] \o <<"]">>],
                <<", ">>)
        \o <<")">>

ColDefs(rows, pkRows, key) ==
    LET columns == TablesMapGet(rows, key)
        lines == [i \in 1..Len(columns) |-> ColumnLine(columns[i])]
    IN IF PkMapHas(pkRows, key)
       THEN Append(lines, ConstraintLine(PkMapGet(pkRows, key)))
       ELSE lines

\* `CREATE TABLE [${schema}].[${tableName}] (\n  ${colDefs.join(',\n  ')}\n);`
CreateStmt(schema, tableName, colDefs) ==
    <<"CREATE TABLE [">> \o schema \o <<"].[">> \o tableName \o <<"] (", "\n", "  ">>
        \o Join(colDefs, <<",", "\n", "  ">>) \o <<"\n", ");">>

TablesKind == <<"tables">>

\* dbObject.definition += createStmt: the mutant of C6
SetDefinitionAppending(objs, schema, tableName, createStmt) ==
    LET hits == {i \in 1..Len(objs) :
                    /\ objs[i].schema = schema
                    /\ objs[i].name = tableName
                    /\ objs[i].type = TablesKind}
    IN IF hits = {} THEN objs
       ELSE LET first == CHOOSE i \in hits : \A j \in hits : i <= j
            IN [objs EXCEPT ![first].definition =
                    IF @ = NoDefinition THEN createStmt ELSE @ \o createStmt]

\* objectList.find(...) and the assignment to its definition
SetDefinition(objs, schema, tableName, createStmt) ==
    LET hits == {i \in 1..Len(objs) :
                    /\ objs[i].schema = schema
                    /\ objs[i].name = tableName
                    /\ objs[i].type = TablesKind}
    IN IF hits = {} THEN objs
       ELSE LET first == CHOOSE i \in hits : \A j \in hits : i <= j
            IN [objs EXCEPT ![first].definition = createStmt]

\* One turn of the loop over tablesMap.entries()
SynthesizeTable(objs, rows, pkRows, key) ==
    LET parts == SplitDot(key)
        schema == parts[1]
        tableName == parts[2]
    IN SetDefinition(objs, schema, tableName,
                     CreateStmt(schema, tableName, ColDefs(rows, pkRows, key)))

RECURSIVE SynthesizeFrom(_, _, _, _, _)
SynthesizeFrom(objs, rows, pkRows, keys, k) ==
    IF k > Len(keys) THEN objs
    ELSE SynthesizeFrom(SynthesizeTable(objs, rows, pkRows, keys[k]),
                        rows, pkRows, keys, k + 1)

SetMissingTableDefinitions(objs, rows, pkRows) ==
    SynthesizeFrom(objs, rows, pkRows, MapKeys(rows), 1)

(***************************************************************************)
(* Inputs of the synthesis.  The column query orders its rows by schema,   *)
(* table and column_id, the object query by type_desc and name: the lists  *)
(* are the sublists of these ordered sequences.  The primary-key query     *)
(* has no ORDER BY: its rows come in any order.                            *)
(***************************************************************************)
MaxColumnRows == 3
MaxPkRows == 2
MaxSynthObjects == 3

Dbo == <<"dbo">>
TableT == <<"T">>
TableTx == <<"T", ".", "x">>

ColumnRow(schema, table, column, dataType, len, prec, scale, nullable, ident, seed, inc) ==
    [SchemaName |-> schema, TableName |-> table, ColumnName |-> column,
     DataType |-> dataType, max_length |-> len, precision |-> prec, scale |-> scale,
     is_nullable |-> nullable, is_identity |-> ident,
     seed_value |-> seed, increment_value |-> inc]

ColumnRowSeq ==
    << ColumnRow(Dbo, TableT, <<"Id">>, "int", 4, 10, 0, FALSE, TRUE, {1}, {1}),
       ColumnRow(Dbo, TableT, <<"Name">>, "varchar", -1, 0, 0, TRUE, FALSE, {}, {}),
       ColumnRow(Dbo, TableTx, <<"Amt">>, "decimal", 9, 18, 2, FALSE, FALSE, {}, {}),
       ColumnRow(Dbo, TableTx, <<"Code">>, "nchar", 20, 0, 0, TRUE, TRUE, {}, {5}) >>

PkRow(schema, table, constraint, column) ==
    [SchemaName |-> schema, TableName |-> table,
     ConstraintName |-> constraint, ColumnName |-> column]

PkRowSet ==
    { PkRow(Dbo, TableT, <<"PK_T">>, <<"Id">>),
      PkRow(Dbo, TableT, <<"PK_T">>, <<"Name">>),
      PkRow(Dbo, TableTx, <<"PK_Tx">>, <<"Amt">>) }

DatabaseObject(schema, name, type, definition) ==
    [schema |-> schema, name |-> name, type |-> type, definition |-> definition]

SynthObjectSeq ==
    << DatabaseObject(Dbo, TableT, TablesKind, NoDefinition),
       DatabaseObject(Dbo, TableTx, TablesKind, NoDefinition),
       DatabaseObject(Dbo, <<"V">>, <<"views">>, <<"X">>) >>

\* The sublists of seq with at most n elements.
SubLists(seq, n) ==
    LET nth(S, i) == CHOOSE x \in S : Cardinality({y \in S : y < x}) = i - 1
    IN {[i \in 1..Cardinality(S) |-> seq[nth(S, i)]] :
          S \in {T \in SUBSET (1..Len(seq)) : Cardinality(T) <= n}}

\* The lists of at most n distinct elements of S, in any order.
InjectiveLists(S, n) ==
    {l \in ListsOver(S, n) : \A i, j \in 1..Len(l) : l[i] = l[j] => i = j}

\* setMissingTableDefinitions(node, objectList) has been called
InitSynth ==
    /\ pc = "called"
    /\ objectList \in SubLists(SynthObjectSeq, MaxSynthObjects)
    /\ generalResults = <<>>
    /\ pkResults = <<>>
    /\ current = <<>> /\ saved = <<>> /\ comparison = NoComparison
    /\ fs = NoFs /\ written = <<>> /\ writeOk = FALSE /\ removed = {}
    /\ queryOk = TRUE
    /\ runs = NoRuns
    /\ HostIdle

\* const generalResults = await executeQuery(node, generalQuery): the query
\* resolves with its rows, or executeQuery rethrows and the call rejects
GeneralQuery ==
    /\ pc = "called"
    /\ \/ /\ generalResults' \in SubLists(ColumnRowSeq, MaxColumnRows)
          /\ pc' = "columns"
          /\ UNCHANGED queryOk
       \/ /\ pc' = "rejected"
          /\ queryOk' = FALSE
          /\ UNCHANGED generalResults
    /\ UNCHANGED <<pkResults, objectList, cmpVars, fs, written, writeOk, removed, runs, hostVars>>

\* the loop over tablesMap runs before the primary-key query has settled:
\* the mutant of C13
PkQueryAfterBackfill ==
    /\ pc = "columns"
    /\ \/ /\ pkResults' \in InjectiveLists(PkRowSet, MaxPkRows)
          /\ pc' = "metadata"
          /\ UNCHANGED <<queryOk, objectList>>
       \/ /\ pc' = "rejected"
          /\ queryOk' = FALSE
          /\ objectList' = SetMissingTableDefinitions(objectList, generalResults, <<>>)
          /\ UNCHANGED pkResults
    /\ UNCHANGED <<generalResults, cmpVars, fs, written, writeOk, removed, runs, hostVars>>

\* const pkResults = await executeQuery(node, pkQuery)
PkQuery ==
    /\ pc = "columns"
    /\ \/ /\ pkResults' \in InjectiveLists(PkRowSet, MaxPkRows)
          /\ pc' = "metadata"
          /\ UNCHANGED queryOk
       \/ /\ pc' = "rejected"
          /\ queryOk' = FALSE
          /\ UNCHANGED pkResults
    /\ UNCHANGED <<generalResults, objectList, cmpVars, fs, written, writeOk, removed, runs, hostVars>>

\* the rest of setMissingTableDefinitions, both queries having resolved
Synthesize ==
    /\ pc = "metadata"
    /\ objectList' = SetMissingTableDefinitions(objectList, generalResults, pkResults)
    /\ pc' = "synthesized"
    /\ UNCHANGED <<generalResults, pkResults, cmpVars, storeVars, runs, hostVars>>

\* a second call on the same list, the queries returning the same rows
SynthesizeAgain ==
    /\ pc = "synthesized"
    /\ objectList' = SetMissingTableDefinitions(objectList, generalResults, pkResults)
    /\ pc' = "resynthesized"
    /\ UNCHANGED <<generalResults, pkResults, cmpVars, storeVars, runs, hostVars>>

NextSynth == GeneralQuery \/ PkQuery \/ Synthesize \/ SynthesizeAgain

SpecSynth == InitSynth /\ [][NextSynth]_vars

(***************************************************************************)
(* C6: a second run of setMissingTableDefinitions over the same column     *)
(* rows and primary-key rows leaves every definition as the first run set  *)
(* it.                                                                     *)
(***************************************************************************)
C6_SynthesisRepeatable ==
    [][pc = "synthesized" => objectList' = objectList]_vars

\* a second run has happened on a list in which the first run set a text
C6_Witness ==
    /\ pc = "resynthesized"
    /\ \E i \in 1..Len(objectList) :
          /\ objectList[i].type = TablesKind
          /\ objectList[i].definition # NoDefinition

(***************************************************************************)
(* C7: the text of a table that has column rows is the header              *)
(* CREATE TABLE [schema].[table] (, a newline, the lines each indented by  *)
(* two blanks and joined by comma and newline, a newline and ");"; the     *)
(* lines are one per column row of the table in row order, then one        *)
(* CONSTRAINT line exactly when the table has primary-key rows, listing    *)
(* their columns in row order.                                             *)
(***************************************************************************)
ColumnRowsOf(schema, table) ==
    SelectSeq(generalResults, LAMBDA r : r.SchemaName = schema /\ r.TableName = table)

PkRowsOf(schema, table) ==
    SelectSeq(pkResults, LAMBDA r : r.SchemaName = schema /\ r.TableName = table)

ExpectedLines(schema, table) ==
    LET cols == ColumnRowsOf(schema, table)
        pks == PkRowsOf(schema, table)
        colLines == [i \in 1..Len(cols) |-> ColumnLine(cols[i])]
        keyCols == [i \in 1..Len(pks) |-> <<"[">> \o pks[i].ColumnName \o <<"]">>]
    IN IF pks = <<>> THEN colLines
       ELSE Append(colLines,
                   <<"CONSTRAINT [">> \o pks[1].ConstraintName \o <<"] PRIMARY KEY (">>
                      \o Join(keyCols, <<", ">>) \o <<")">>)

ExpectedText(schema, table) ==
    LET lines == ExpectedLines(schema, table)
    IN <<"CREATE TABLE [">> \o schema \o <<"].[">> \o table \o <<"] (">>
          \o <<"\n">>
          \o Join([i \in 1..Len(lines) |-> <<"  ">> \o lines[i]], <<",", "\n">>)
          \o <<"\n">> \o <<");">>

C7_CreateTableText ==
    pc = "synthesized" =>
        \A i \in 1..Len(objectList) :
            (/\ objectList[i].type = TablesKind
             /\ ColumnRowsOf(objectList[i].schema, objectList[i].name) # <<>>)
            => objectList[i].definition =
                  ExpectedText(objectList[i].schema, objectList[i].name)

(***************************************************************************)
(* The on-disk snapshot.  fs is the tree under comparisonDir =             *)
(* <repoDir>/DatabaseState: dirs is the set of directories that exist and  *)
(* files maps each file to its content, both by their path below           *)
(* comparisonDir (a sequence of segments; <<>> is comparisonDir itself).   *)
(***************************************************************************)
ComparisonDir == <<>>
SchemasSegment == <<"schemas">>
SqlExtension == <<".", "sql">>

\* fs.existsSync(dir)
ExistsSync(f, dir) == dir \in f.dirs

\* the tree is not cleared: the mutant of C9
KeepExisting(f) == f

\* fs.rmSync(comparisonDir, { recursive: true, force: true }) under the
\* guard fs.existsSync(comparisonDir)
ClearExisting(f) == IF ExistsSync(f, ComparisonDir) THEN NoFs ELSE f

\* path.join(comparisonDir, "schemas", obj.schema): the mutant of C8
SchemaDirWithoutKind(obj) == <<SchemasSegment, obj.schema>>

\* path.join(comparisonDir, "schemas", obj.schema, obj.type)
DeclaredSchemaDir(obj) == <<SchemasSegment, obj.schema, obj.type>>

\* path.join(declaredSchemaDir, `${obj.name}.sql`)
FilePath(obj) == Append(DeclaredSchemaDir(obj), obj.name \o SqlExtension)

\* fs.mkdirSync(dir, { recursive: true }) under the guard !fs.existsSync(dir)
MkdirRecursive(f, dir) ==
    IF ExistsSync(f, dir) THEN f
    ELSE [f EXCEPT !.dirs = @ \cup {SubSeq(dir, 1, k) : k \in 0..Len(dir)}]

\* fs.writeFileSync(filePath, data) with a string for data
WriteFileSync(f, filePath, data) ==
    [f EXCEPT !.files = [q \in (DOMAIN @) \cup {filePath} |->
                            IF q = filePath THEN data ELSE @[q]]]

\* The loop "for (const obj of currentObjects)" from its i-th object on.
\* fs.writeFileSync throws a TypeError for a definition that is null, after
\* the directory was made: the loop ends there and the handler's catch runs.
RECURSIVE WriteObjectsFrom(_, _, _)
WriteObjectsFrom(f, objs, i) ==
    IF i > Len(objs) THEN [fs |-> f, ok |-> TRUE]
    ELSE LET made == MkdirRecursive(f, DeclaredSchemaDir(objs[i]))
         IN IF objs[i].definition = NoDefinition
            THEN [fs |-> made, ok |-> FALSE]
            ELSE WriteObjectsFrom(
                     WriteFileSync(made, FilePath(objs[i]), objs[i].definition),
                     objs, i + 1)

\* The write step of _syncToGit: clear the tree, then write every object.
WriteSnapshot(f, objs) == WriteObjectsFrom(ClearExisting(f), objs, 1)

\* item.endsWith('.sql')
EndsWithSql(item) ==
    /\ Len(item) >= 2
    /\ SubSeq(item, Len(item) - 1, Len(item)) = SqlExtension

\* item.replace('.sql', ''): the first occurrence is removed
ReplaceSql(item) ==
    LET at == {i \in 1..(Len(item) - 1) : item[i] = "." /\ item[i + 1] = "sql"}
    IN IF at = {} THEN item
       ELSE LET first == CHOOSE i \in at : \A j \in at : i <= j
            IN SubSeq(item, 1, first - 1) \o SubSeq(item, first + 2, Len(item))

\* The (schema, type) arguments readDirectory is called with for directory
\* dir, from readDirectory(comparisonDir, '', '') down.
RECURSIVE ReadContext(_)
ReadContext(dir) ==
    IF dir = <<>> THEN [schema |-> <<>>, type |-> <<>>]
    ELSE LET up == ReadContext(SubSeq(dir, 1, Len(dir) - 1))
             item == dir[Len(dir)]
         IN IF up.schema = <<>> /\ item # SchemasSegment
            THEN [schema |-> item, type |-> up.type]
            ELSE IF up.schema # <<>> /\ up.type = <<>>
            THEN [schema |-> up.schema, type |-> item]
            ELSE up

\* The object readDirectory pushes for the file at path.
ObjectOfFile(f, path) ==
    LET ctx == ReadContext(SubSeq(path, 1, Len(path) - 1))
    IN [schema |-> ctx.schema,
        name |-> ReplaceSql(path[Len(path)]),
        type |-> ctx.type,
        definition |-> f.files[path]]

SqlFiles(f) == {path \in DOMAIN f.files : EndsWithSql(path[Len(path)])}

\* fs.readdirSync(dir) throws for a directory that does not exist
ReaddirThrows(f, dir) == ~ExistsSync(f, dir)

\* The objects readDirectory(comparisonDir, '', '') pushes.  fs.readdirSync
\* fixes no order of the entries: every order of the files is a possible
\* result.
ReadDirectory(f) ==
    [threw |-> ReaddirThrows(f, ComparisonDir),
     lists |-> {[i \in 1..Len(order) |-> ObjectOfFile(f, order[i])] :
                  order \in {o \in InjectiveLists(SqlFiles(f), Cardinality(SqlFiles(f))) :
                                Len(o) = Cardinality(SqlFiles(f))}}]

\* _getSavedDatabaseObjects without its guard: the mutant of C10
GetSavedUnguarded(f) == ReadDirectory(f)

\* _getSavedDatabaseObjects
GetSavedDatabaseObjects(f) ==
    IF ~ExistsSync(f, ComparisonDir) THEN [threw |-> FALSE, lists |-> {<<>>}]
    ELSE ReadDirectory(f)

(***************************************************************************)
(* RetrieveDatabaseObjects.  An object row is [SchemaName, ObjectName,     *)
(* ObjectType, ObjectDefinition]; ObjectDefinition is NULL for a table and *)
(* for an encrypted module.                                                *)
(***************************************************************************)
ObjectRow(schema, name, type, definition) ==
    [SchemaName |-> schema, ObjectName |-> name,
     ObjectType |-> type, ObjectDefinition |-> definition]

\* results.map(row => ({schema, name, type, definition}))
MapRows(results) ==
    [i \in 1..Len(results) |->
        DatabaseObject(results[i].SchemaName, results[i].ObjectName,
                       results[i].ObjectType, results[i].ObjectDefinition)]

\* ok: none of the three queries rejected.  The catch returns [].
RetrieveDatabaseObjects(results, rows, pkRows, ok) ==
    IF ok THEN SetMissingTableDefinitions(MapRows(results), rows, pkRows)
    ELSE <<>>

(***************************************************************************)
(* The catalogs of the panel's runs.  sys.objects holds one row per        *)
(* (schema, name): an object list is a sublist of CatalogObjectSeq (which  *)
(* is in the query's order, by type_desc and name) with at most MaxObjects *)
(* rows and no (schema, name) twice.  The three queries of one retrieval   *)
(* run one after the other against a database that may change in between,  *)
(* so every combination of their results is possible.                      *)
(***************************************************************************)
MaxObjects == 2

SchemaNamedSchemas == <<"schemas">>
ViewsKind == <<"views">>

CatalogObjectSeq ==
    << ObjectRow(Dbo, TableT, TablesKind, NoDefinition),
       ObjectRow(SchemaNamedSchemas, TableT, TablesKind, NoDefinition),
       ObjectRow(Dbo, <<".", "sql", "a">>, ViewsKind, <<"X">>),
       ObjectRow(Dbo, <<"a", ".", "sql">>, ViewsKind, <<"Y">>),
       ObjectRow(Dbo, <<"V">>, ViewsKind, <<"X">>),
       ObjectRow(Dbo, <<"V">>, ViewsKind, <<"Y">>),
       ObjectRow(<<"a">>, <<"b", ".", "c">>, ViewsKind, <<"X">>),
       ObjectRow(<<"a", ".", "b">>, <<"c">>, ViewsKind, <<"X">>) >>

CatalogColumnSeq ==
    << ColumnRowSeq[1],
       ColumnRow(SchemaNamedSchemas, TableT, <<"Id">>, "int", 4, 10, 0, FALSE, FALSE, {}, {}) >>

CatalogPkSet == { PkRow(Dbo, TableT, <<"PK_T">>, <<"Id">>) }

CatalogObjectLists ==
    {l \in SubLists(CatalogObjectSeq, MaxObjects) :
        \A i, j \in 1..Len(l) :
            (l[i].SchemaName = l[j].SchemaName /\ l[i].ObjectName = l[j].ObjectName)
                => i = j}

RetrieveOutcomes ==
    {[ok |-> TRUE, objects |-> RetrieveDatabaseObjects(results, rows, pkRows, TRUE)] :
        results \in CatalogObjectLists,
        rows \in SubLists(CatalogColumnSeq, MaxColumnRows),
        pkRows \in InjectiveLists(CatalogPkSet, MaxPkRows)}
    \cup {[ok |-> FALSE, objects |-> RetrieveDatabaseObjects(<<>>, <<>>, <<>>, FALSE)]}

Init ==
    /\ pc = "idle"
    /\ current = <<>> /\ saved = <<>> /\ comparison = NoComparison
    /\ fs = NoFs /\ written = <<>> /\ writeOk = FALSE /\ removed = {}
    /\ queryOk = TRUE
    /\ runs = NoRuns
    /\ HostIdle
    /\ generalResults = <<>> /\ pkResults = <<>> /\ objectList = <<>>

\* No handler of the panel is between its start and its end.
Idle == pc \in {"idle", "synced", "syncFailed", "updateFailed"}

\* _syncToGit: the retrieval, the write step and _commitToGit, whose
\* process.chdir(gitDir) throws when gitDir does not exist.
SyncToGit ==
    /\ Idle
    /\ \E out \in RetrieveOutcomes, gitDirExists \in BOOLEAN :
        LET w == WriteSnapshot(fs, out.objects)
        IN /\ fs' = w.fs
           /\ written' = out.objects
           /\ writeOk' = w.ok
           /\ removed' = (DOMAIN fs.files) \ (DOMAIN ClearExisting(fs).files)
           /\ queryOk' = out.ok
           /\ pc' = IF w.ok /\ gitDirExists THEN "synced" ELSE "syncFailed"
           /\ UNCHANGED <<cmpVars, synthVars, runs, hostVars>>

\* _update up to the return of _getComparisonData
Update ==
    /\ Idle
    /\ \E out \in RetrieveOutcomes :
        LET read == GetSavedDatabaseObjects(fs)
        IN /\ current' = out.objects
           /\ \E list \in read.lists :
                 /\ saved' = list
                 /\ comparison' = CompareObjects(out.objects, list)
           /\ pc' = IF read.threw THEN "updateFailed" ELSE "compared"
           /\ queryOk' = out.ok
           /\ removed' = {}
           /\ UNCHANGED <<fs, written, writeOk, synthVars, runs, hostVars>>

\* webview.postMessage({ type: 'updateData', data: comparisonData }): the
\* handler ends and its locals with it
PostUpdateData ==
    /\ pc = "compared"
    /\ pc' = "idle"
    /\ current' = <<>> /\ saved' = <<>> /\ comparison' = NoComparison
    /\ UNCHANGED <<storeVars, synthVars, runs, hostVars>>

Next == SyncToGit \/ Update \/ PostUpdateData

Spec == Init /\ [][Next]_vars

(***************************************************************************)
(* C4: after a write step that completed on a non-empty list of unique     *)
(* identities, the list read back from the same directory equals the       *)
(* written one as a set of (identity, definition).                         *)
(***************************************************************************)
Content(list) ==
    {[identity |-> Identity(list[i]), definition |-> list[i].definition] :
        i \in 1..Len(list)}

C4_RoundTrip ==
    (pc = "compared" /\ writeOk /\ written # <<>> /\ UniqueIdentities(written))
        => Content(saved) = Content(written)

(***************************************************************************)
(* C5: no list the program constructs holds an identity twice: neither the *)
(* list RetrieveDatabaseObjects returns nor the list                       *)
(* _getSavedDatabaseObjects reads from a tree the write step produced.     *)
(***************************************************************************)
C5_IdentityUniqueness ==
    /\ UniqueIdentities(written)
    /\ pc = "compared" => (UniqueIdentities(current) /\ UniqueIdentities(saved))

(***************************************************************************)
(* C8 as claimed: every file of the snapshot is at <schema>/<kind>/        *)
(* <name>.sql directly below the snapshot directory.                       *)
(***************************************************************************)
KindSegments ==
    {<<"tables">>, <<"views">>, <<"procedures">>, <<"functions">>, <<"triggers">>}

StoredAt(obj) ==
    << <<"schemas">>, obj.schema, obj.type, obj.name \o <<".", "sql">> >>

\* the write loop reached and wrote the i-th object
WasWritten(i) == \A j \in 1..i : written[j].definition # NoDefinition

C9_ExactlyTheWrittenFiles ==
    writeOk =>
        /\ SqlFiles(fs) = {FilePath(written[i]) : i \in 1..Len(written)}
        /\ DOMAIN fs.files = SqlFiles(fs)
        /\ Cardinality(SqlFiles(fs)) = Len(written)

\* a completed write step over a tree that held a file of another object
C9_Witness ==
    /\ pc = "synced"
    /\ writeOk
    /\ written # <<>>
    /\ \E path \in removed : path \notin DOMAIN fs.files

(***************************************************************************)
(* C10: when the snapshot directory does not exist,                        *)
(* _getSavedDatabaseObjects returns the empty list without an error, and   *)
(* the comparison puts every current object in added.                      *)
(***************************************************************************)
C10_MissingDirectory ==
    (pc \in {"compared", "updateFailed"} /\ ~ExistsSync(fs, ComparisonDir)) =>
        /\ pc = "compared"
        /\ saved = <<>>
        /\ comparison = [added |-> current, modified |-> <<>>,
                         deleted |-> <<>>, unchanged |-> <<>>]

C10_Witness ==
    /\ pc = "compared"
    /\ ~ExistsSync(fs, ComparisonDir)
    /\ Len(current) = 2

(***************************************************************************)
(* C11: a sync whose catalog retrieval failed removes and writes nothing:  *)
(* the snapshot after the handler is the snapshot before it.               *)
(***************************************************************************)
C11_FailedSyncLeavesSnapshot ==
    [][(pc' \in {"synced", "syncFailed"} /\ ~queryOk') => fs' = fs]_vars

(***************************************************************************)
(* C12: a failed retrieval rejects, so that no comparison is returned for  *)
(* it: whenever _getComparisonData returned a comparison, the queries of   *)
(* its retrieval had all succeeded.                                        *)
(***************************************************************************)
C12_FailurePropagates == pc = "compared" => queryOk

(***************************************************************************)
(* C13: until both the column query and the primary-key query have         *)
(* resolved, setMissingTableDefinitions sets no definition: a call that    *)
(* rejects because one of them failed leaves the object list as it was     *)
(* passed.                                                                 *)
(***************************************************************************)
C13_NoBackfillBeforeQueries ==
    [][(pc \in {"called", "columns"}) => (objectList' = objectList)]_vars

\* the call rejected at the primary-key query, on a list with a table for
\* which the column query had returned rows
C13_Witness ==
    /\ pc = "rejected"
    /\ generalResults # <<>>
    /\ \E i \in 1..Len(objectList) :
          /\ objectList[i].type = TablesKind
          /\ ColumnRowsOf(objectList[i].schema, objectList[i].name) # <<>>
          /\ objectList[i].definition = NoDefinition

(***************************************************************************)
(* C14: the loop of setMissingTableDefinitions changes only definitions of *)
(* table objects: the list keeps its length and order, every object keeps  *)
(* its schema, name and kind, every object that is not a table keeps its   *)
(* definition, and so does every table for which the column query returned *)
(* no row; the call ends without an error.                                 *)
(***************************************************************************)
SameObjectsInOrder(before, after) ==
    /\ Len(after) = Len(before)
    /\ \A i \in 1..Len(before) : Identity(after[i]) = Identity(before[i])

C14_OnlyTableDefinitions ==
    [][pc = "metadata" =>
          /\ pc' = "synthesized"
          /\ SameObjectsInOrder(objectList, objectList')
          /\ \A i \in 1..Len(objectList) :
                (\/ objectList[i].type # TablesKind
                 \/ ColumnRowsOf(objectList[i].schema, objectList[i].name) = <<>>)
                => objectList'[i].definition = objectList[i].definition]_vars

\* the part of C14 that does not depend on how a table's rows are found
C14_FrameOfOtherKinds ==
    [][pc = "metadata" =>
          /\ pc' = "synthesized"
          /\ SameObjectsInOrder(objectList, objectList')
          /\ \A i \in 1..Len(objectList) :
                objectList[i].type # TablesKind
                => objectList'[i].definition = objectList[i].definition]_vars

(***************************************************************************)
(* C15: every table object for which the column query returned at least    *)
(* one row of its schema and table name gets the CREATE TABLE text built   *)
(* from the column rows and the primary-key rows of that schema and table  *)
(* name, also when a name holds a dot.                                     *)
(***************************************************************************)
C15_DefinitionFromOwnRows ==
    pc = "synthesized" =>
        \A i \in 1..Len(objectList) :
            (/\ objectList[i].type = TablesKind
             /\ ColumnRowsOf(objectList[i].schema, objectList[i].name) # <<>>)
            => objectList[i].definition =
                  CreateStmt(objectList[i].schema, objectList[i].name,
                             ExpectedLines(objectList[i].schema, objectList[i].name))

(***************************************************************************)
(* C20: in every synthesized text, the line of a column row shows the data *)
(* type followed by (MAX) or (max_length) when the type is varchar,        *)
(* nvarchar, char, nchar, binary or varbinary, by (precision,scale) when   *)
(* it is decimal or numeric, and by nothing otherwise; what follows is the *)
(* IDENTITY clause or the nullability.                                     *)
(***************************************************************************)
HasRunAt(text, k, run) ==
    /\ k + Len(run) - 1 <= Len(text)
    /\ SubSeq(text, k, k + Len(run) - 1) = run

ClaimedTypeClause(col) ==
    IF col.DataType \in {"varchar", "nvarchar", "char", "nchar", "binary", "varbinary"}
    THEN IF col.max_length = -1 THEN <<"(", "MAX", ")">>
         ELSE <<"(", ToString(col.max_length), ")">>
    ELSE IF col.DataType \in {"decimal", "numeric"}
    THEN <<"(", ToString(col.precision), ",", ToString(col.scale), ")">>
    ELSE <<>>

AfterTypeTokens == {" IDENTITY(", " NULL", " NOT NULL"}

\* the line of column row col starts at token k of text
LineOfColumnAt(text, k, col) ==
    /\ k > 1
    /\ text[k - 1] = "  "
    /\ HasRunAt(text, k, <<"[">> \o col.ColumnName \o <<"] ">>)

C20_TypeClause ==
    pc = "synthesized" =>
        \A i \in 1..Len(objectList), r \in 1..Len(generalResults) :
            LET text == objectList[i].definition
                col == generalResults[r]
                start == <<"[">> \o col.ColumnName \o <<"] ">>
                shown == start \o <<col.DataType>> \o ClaimedTypeClause(col)
            IN \A k \in 1..Len(text) :
                  LineOfColumnAt(text, k, col) =>
                      /\ HasRunAt(text, k, shown)
                      /\ k + Len(shown) <= Len(text)
                      /\ text[k + Len(shown)] \in AfterTypeTokens

\* one text holds a line with (MAX) and a line of a type without a clause
C20_Witness ==
    /\ pc = "synthesized"
    /\ \E i \in 1..Len(objectList) :
          LET text == objectList[i].definition
          IN /\ \E k \in 1..Len(text) : HasRunAt(text, k, <<"varchar", "(", "MAX", ")">>)
             /\ \E k \in 1..Len(text) : HasRunAt(text, k, <<"int", " IDENTITY(">>)

(***************************************************************************)
(* C16: _compareObjects returns no result for an input list that holds an  *)
(* identity twice: a comparison that returned had two lists of unique      *)
(* identities.                                                             *)
(***************************************************************************)
C16_DuplicatesRejected ==
    pc = "compared" => (UniqueIdentities(current) /\ UniqueIdentities(saved))

(***************************************************************************)
(* C19: added, the current objects of modified, and unchanged are          *)
(* subsequences of current, deleted is a subsequence of saved, and the     *)
(* call leaves both input lists as they were.                              *)
(***************************************************************************)
\* sub is list with some elements left out, the others in their order
IsSubsequence(sub, list) ==
    \E at \in [1..Len(sub) -> 1..Len(list)] :
        /\ \A i, j \in 1..Len(sub) : i < j => at[i] < at[j]
        /\ \A i \in 1..Len(sub) : list[at[i]] = sub[i]

C19_OrderPreserved ==
    [][pc = "input" =>
          /\ IsSubsequence(comparison'.added, current)
          /\ IsSubsequence([i \in 1..Len(comparison'.modified) |->
                               comparison'.modified[i].current], current)
          /\ IsSubsequence(comparison'.unchanged, current)
          /\ IsSubsequence(comparison'.deleted, saved)
          /\ current' = current
          /\ saved' = saved]_vars

\* two different objects were added and two different objects deleted
C19_Witness ==
    /\ pc = "compared"
    /\ Len(comparison.added) = 2 /\ comparison.added[1] # comparison.added[2]
    /\ Len(comparison.deleted) = 2 /\ comparison.deleted[1] # comparison.deleted[2]

(***************************************************************************)
(* Overlapping invocations of _syncToGit and _update.  A step is what one  *)
(* invocation runs between two awaits: the extension host runs one such    *)
(* piece at a time.  After "await RetrieveDatabaseObjects" _syncToGit runs *)
(* fs.rmSync, the write loop and _commitToGit up to its first await        *)
(* without an await in between.                                            *)
(***************************************************************************)
MaxRunObjects == 2

\* The catalog of the overlapping runs: table dbo.T, and view dbo.V before
\* and after an ALTER VIEW.
RunCatalogSeq == <<CatalogObjectSeq[1], CatalogObjectSeq[5], CatalogObjectSeq[6]>>

RunCatalogLists ==
    {l \in SubLists(RunCatalogSeq, MaxRunObjects) :
        \A i, j \in 1..Len(l) :
            (l[i].SchemaName = l[j].SchemaName /\ l[i].ObjectName = l[j].ObjectName)
                => i = j}

\* What "await RetrieveDatabaseObjects(this._node)" can resolve with.
RunOutcomes ==
    {RetrieveDatabaseObjects(results, rows, <<>>, TRUE) :
        results \in RunCatalogLists, rows \in SubLists(<<ColumnRowSeq[1]>>, 1)}
    \cup {RetrieveDatabaseObjects(<<>>, <<>>, <<>>, FALSE)}

\* The constructor has called this._update().
InitRuns ==
    /\ pc = "runs"
    /\ runs = [r \in Runs |->
                  IF r = 1 THEN [kind |-> "update", pc |-> "retrieving", objects |-> <<>>]
                  ELSE IdleRun]
    /\ current = <<>> /\ saved = <<>> /\ comparison = NoComparison
    /\ fs = NoFs /\ written = <<>> /\ writeOk = FALSE /\ removed = {}
    /\ queryOk = TRUE
    /\ HostIdle
    /\ generalResults = <<>> /\ pkResults = <<>> /\ objectList = <<>>

\* the tree is cleared before the retrieval is awaited: the mutant of C18
StartSyncClearing(r) ==
    /\ runs[r] = IdleRun
    /\ runs' = [runs EXCEPT ![r] =
                   [kind |-> "sync", pc |-> "retrieving", objects |-> <<>>]]
    /\ fs' = ClearExisting(fs)
    /\ UNCHANGED <<pc, cmpVars, written, writeOk, removed, queryOk, synthVars, hostVars>>

\* message 'syncToGit': _syncToGit runs up to its await of the retrieval
StartSync(r) ==
    /\ runs[r] = IdleRun
    /\ runs' = [runs EXCEPT ![r] =
                   [kind |-> "sync", pc |-> "retrieving", objects |-> <<>>]]
    /\ UNCHANGED <<pc, cmpVars, storeVars, synthVars, hostVars>>

\* message 'refresh' or a view state change: _update runs up to the await
\* of the retrieval in _getComparisonData
StartUpdate(r) ==
    /\ runs[r] = IdleRun
    /\ runs' = [runs EXCEPT ![r] =
                   [kind |-> "update", pc |-> "retrieving", objects |-> <<>>]]
    /\ UNCHANGED <<pc, cmpVars, storeVars, synthVars, hostVars>>

\* RetrieveDatabaseObjects settles: its promise resolves, with [] after a
\* failed query
RetrieveResolves(r) ==
    /\ runs[r].pc = "retrieving"
    /\ \E objs \in RunOutcomes :
          runs' = [runs EXCEPT ![r].pc = "retrieved", ![r].objects = objs]
    /\ UNCHANGED <<pc, cmpVars, storeVars, synthVars, hostVars>>

\* the write loop awaits each file (fs.promises): the tree is cleared in
\* one step and the files are written in a later one: the mutant of C17
WriteStepYielding(r) ==
    /\ runs[r].kind = "sync"
    /\ \/ /\ runs[r].pc = "retrieved"
          /\ fs' = ClearExisting(fs)
          /\ runs' = [runs EXCEPT ![r].pc = "writing"]
       \/ /\ runs[r].pc = "writing"
          /\ LET w == WriteObjectsFrom(fs, runs[r].objects, 1)
             IN /\ fs' = w.fs
                /\ runs' = [runs EXCEPT ![r] =
                               IF w.ok THEN [@ EXCEPT !.pc = "committing"]
                               ELSE IdleRun]
    /\ UNCHANGED <<pc, cmpVars, written, writeOk, removed, queryOk, synthVars, hostVars>>

\* The continuation of _syncToGit after the retrieval: the write step and
\* _commitToGit up to "await GitManager.executeCommand('git add .')".  A
\* throw of fs.writeFileSync or of process.chdir ends the invocation in the
\* catch of _syncToGit.
WriteStep(r) ==
    /\ runs[r].kind = "sync"
    /\ runs[r].pc = "retrieved"
    /\ \E gitDirExists \in BOOLEAN :
          LET w == WriteSnapshot(fs, runs[r].objects)
          IN /\ fs' = w.fs
             /\ runs' = [runs EXCEPT ![r] =
                            IF w.ok /\ gitDirExists
                            THEN [@ EXCEPT !.pc = "committing"]
                            ELSE IdleRun]
    /\ UNCHANGED <<pc, cmpVars, written, writeOk, removed, queryOk, synthVars, hostVars>>

\* the git commands have settled (executeCommand never rejects):
\* _syncToGit calls this._update() and ends
CommitSettles(r) ==
    /\ runs[r].kind = "sync"
    /\ runs[r].pc = "committing"
    /\ runs' = [runs EXCEPT ![r] =
                   [kind |-> "update", pc |-> "retrieving", objects |-> <<>>]]
    /\ UNCHANGED <<pc, cmpVars, storeVars, synthVars, hostVars>>

\* The continuation of _getComparisonData and _update after the retrieval:
\* the snapshot is read and compared, and the comparison is posted to the
\* webview (comparison is the data the webview shows); when the read throws,
\* the error is posted and the data stays.
CompareStep(r) ==
    /\ runs[r].kind = "update"
    /\ runs[r].pc = "retrieved"
    /\ LET read == GetSavedDatabaseObjects(fs)
       IN \E list \in read.lists :
             comparison' = IF read.threw THEN comparison
                           ELSE CompareObjects(runs[r].objects, list)
    /\ runs' = [runs EXCEPT ![r] = IdleRun]
    /\ UNCHANGED <<pc, current, saved, storeVars, synthVars, hostVars>>

NextRuns ==
    \E r \in Runs :
        \/ StartSync(r)
        \/ StartUpdate(r)
        \/ RetrieveResolves(r)
        \/ WriteStep(r)
        \/ CommitSettles(r)
        \/ CompareStep(r)

SpecRuns == InitRuns /\ [][NextRuns]_vars

(***************************************************************************)
(* C17: when two overlapping invocations of _syncToGit have both finished  *)
(* their write step, the snapshot is the tree of the objects one of them   *)
(* wrote: one file per object with its definition, the directories of      *)
(* these files and nothing else.                                           *)
(***************************************************************************)
IsSnapshotOf(f, objs) ==
    /\ DOMAIN f.files = {StoredAt(objs[i]) : i \in 1..Len(objs)}
    /\ \A i \in 1..Len(objs) : f.files[StoredAt(objs[i])] = objs[i].definition
    /\ f.dirs = {SubSeq(path, 1, k) : path \in DOMAIN f.files, k \in 0..3}

FinishedWriting(r) == runs[r].kind = "sync" /\ runs[r].pc = "committing"

C17_WriteStepsDoNotInterleave ==
    (\A r \in Runs : FinishedWriting(r)) =>
        \E r \in Runs : IsSnapshotOf(fs, runs[r].objects)

\* both have written, and they wrote different non-empty lists
C17_Witness ==
    /\ \A r \in Runs : FinishedWriting(r) /\ runs[r].objects # <<>>
    /\ runs[1].objects # runs[2].objects

(***************************************************************************)
(* C18: a step changes the snapshot only when it is the continuation of a  *)
(* _syncToGit invocation whose retrieval has settled; no step of _update   *)
(* and no step of an invocation still awaiting its retrieval changes it.   *)
(***************************************************************************)
C18_WriteOnlyAfterRetrieval ==
    [][fs' # fs =>
          \E r \in Runs :
              /\ runs[r].kind = "sync"
              /\ runs[r].pc = "retrieved"
              /\ runs'[r] # runs[r]
              /\ \A q \in Runs \ {r} : runs'[q] = runs[q]]_vars

\* the snapshot holds a file, a comparison run has its retrieval behind it
\* and a sync run is still awaiting its own
C18_Witness ==
    /\ DOMAIN fs.files # {}
    /\ \E r, q \in Runs :
          /\ runs[r].kind = "update" /\ runs[r].pc = "retrieved"
          /\ runs[q].kind = "sync" /\ runs[q].pc = "retrieving"

(***************************************************************************)
(* C21: in every synthesized text, the line of a column row is the column  *)
(* name, the type with its clause, then IDENTITY(seed,increment) exactly   *)
(* when the column is an identity column, with 1 in the place of a seed or *)
(* an increment that is absent, then NULL or NOT NULL, and there the line  *)
(* ends.                                                                   *)
(***************************************************************************)
ClaimedNumber(value) == IF value = {} THEN "1" ELSE ToString(CHOOSE v \in value : TRUE)

ClaimedIdentityClause(col) ==
    IF col.is_identity
    THEN <<" IDENTITY(", ClaimedNumber(col.seed_value), ",",
           ClaimedNumber(col.increment_value), ")">>
    ELSE <<>>

ClaimedColumnLine(col) ==
    <<"[">> \o col.ColumnName \o <<"] ", col.DataType>> \o ClaimedTypeClause(col)
        \o ClaimedIdentityClause(col)
        \o (IF col.is_nullable THEN <<" NULL">> ELSE <<" NOT NULL">>)

C21_IdentityClause ==
    pc = "synthesized" =>
        \A i \in 1..Len(objectList), r \in 1..Len(generalResults) :
            LET text == objectList[i].definition
                col == generalResults[r]
                line == ClaimedColumnLine(col)
            IN \A k \in 1..Len(text) :
                  LineOfColumnAt(text, k, col) =>
                      /\ HasRunAt(text, k, line)
                      /\ k + Len(line) <= Len(text)
                      /\ text[k + Len(line)] \in {",", "\n"}

\* a text holds the line of an identity column whose seed is absent and
\* whose increment is 5
C21_Witness ==
    /\ pc = "synthesized"
    /\ \E i \in 1..Len(objectList) :
          \E k \in 1..Len(objectList[i].definition) :
              HasRunAt(objectList[i].definition, k,
                       <<" IDENTITY(", "1", ",", "5", ")", " NULL">>)

(***************************************************************************)
(* DatabaseSourceControlProvider: the command handlers and the working     *)
(* directory of the process.  Each handler saves process.cwd() in its      *)
(* local originalCwd, changes to this._gitDir, awaits git commands and     *)
(* changes back in a finally block.  A step is what an invocation runs     *)
(* between two awaits.  child_process.exec starts the child process, in    *)
(* the working directory of that moment, when executeCommand is called;    *)
(* executeCommand resolves later and never rejects.                        *)
(***************************************************************************)
MaxChanged == 2

coreVars == <<pc, cmpVars, storeVars, synthVars, runs>>

engineVars == <<coreVars, shellVars>>

Frame(fn, at, orig, left) == [fn |-> fn, pc |-> at, orig |-> orig, left |-> left]

\* _update up to "await GitManager.executeCommand('git status --porcelain')",
\* called while the working directory is dir
UpdateFrame(dir) == Frame("_update", "status", dir, 0)

Top(stack) == stack[Len(stack)]

FreeSlot(t) == tasks[t] = <<>>

\* child_process.exec(command): the child starts in the working directory dir
Launch(command, dir) == [command |-> command, cwd |-> dir]

\* The working directory after _update, the top of stack, has returned: its
\* finally block has run and then the one of the _stageFile that awaited it.
CwdAfterUpdate(stack) ==
    IF Len(stack) > 1 THEN stack[Len(stack) - 1].orig ELSE Top(stack).orig

\* the message of the _stageFile that awaited _update, if there is one
NotifiedAfterUpdate(stack) ==
    IF Len(stack) > 1 THEN "Staged file" ELSE notified

\* message.trim()
RECURSIVE Trim(_)
Trim(text) ==
    IF text = <<>> THEN <<>>
    ELSE IF Head(text) = " " THEN Trim(Tail(text))
    ELSE IF text[Len(text)] = " " THEN Trim(SubSeq(text, 1, Len(text) - 1))
    ELSE text

CommitMessages == {<<>>, <<" ">>, <<"m">>}

\* The constructor has registered the commands and called this._update().
InitProvider ==
    /\ pc = "provider"
    /\ current = <<>> /\ saved = <<>> /\ comparison = NoComparison
    /\ fs = NoFs /\ written = <<>> /\ writeOk = FALSE /\ removed = {}
    /\ queryOk = TRUE
    /\ generalResults = <<>> /\ pkResults = <<>> /\ objectList = <<>>
    /\ runs = NoRuns
    /\ ShellIdle
    /\ tasks = [t \in Tasks |-> IF t = 1 THEN <<UpdateFrame(OriginalDir)>> ELSE <<>>]
    /\ cwd = GitDir
    /\ gitLaunch = Launch("status", GitDir)
    /\ inputBox = <<>>
    /\ notified = "none"
    /\ commitOk = "none"

\* the user edits the commit message
TypeMessage ==
    /\ inputBox' \in CommitMessages \ {inputBox}
    /\ UNCHANGED <<cwd, tasks, gitLaunch, notified, commitOk, engineVars>>

\* command refresh: this._update()
Refresh(t) ==
    /\ FreeSlot(t)
    /\ tasks' = [tasks EXCEPT ![t] = <<UpdateFrame(cwd)>>]
    /\ cwd' = GitDir
    /\ gitLaunch' = Launch("status", cwd')
    /\ UNCHANGED <<inputBox, notified, commitOk, engineVars>>

\* A handler up to its await of one git command: originalCwd = process.cwd(),
\* process.chdir(this._gitDir), executeCommand(command).
StartGitCommand(t, fn, command) ==
    /\ tasks' = [tasks EXCEPT ![t] = <<Frame(fn, "git", cwd, 0)>>]
    /\ cwd' = GitDir
    /\ gitLaunch' = Launch(command, cwd')
    /\ UNCHANGED <<inputBox, notified, commitOk, engineVars>>

InvalidUri ==
    /\ notified' = "Invalid file URI"
    /\ UNCHANGED <<cwd, tasks, gitLaunch, inputBox, commitOk, engineVars>>

\* command stageFile
StageFile(t) ==
    /\ FreeSlot(t)
    /\ \E valid \in BOOLEAN :
          IF valid THEN StartGitCommand(t, "_stageFile", "add") ELSE InvalidUri

\* command stageAll
StageAll(t) ==
    /\ FreeSlot(t)
    /\ StartGitCommand(t, "_stageAll", "add")

\* command unstageFile
UnstageFile(t) ==
    /\ FreeSlot(t)
    /\ \E valid \in BOOLEAN :
          IF valid THEN StartGitCommand(t, "_unstageFile", "reset") ELSE InvalidUri

\* command unstageAll
UnstageAll(t) ==
    /\ FreeSlot(t)
    /\ StartGitCommand(t, "_unstageAll", "reset")

\* command commit: _commit up to "await executeCommand('git add .')"
Commit(t) ==
    /\ FreeSlot(t)
    /\ IF Trim(inputBox) = <<>>
       THEN /\ notified' = "Please enter a commit message"
            /\ UNCHANGED <<cwd, tasks, gitLaunch, inputBox, commitOk>>
       ELSE /\ tasks' = [tasks EXCEPT ![t] = <<Frame("_commit", "add", cwd, 0)>>]
            /\ cwd' = GitDir
            /\ gitLaunch' = Launch("add", cwd')
            /\ UNCHANGED <<inputBox, notified, commitOk>>
    /\ UNCHANGED engineVars

\* "git status --porcelain" has settled in _update.  With a status that
\* lists n > 0 files _update calls _prefetchGitFiles, which runs up to its
\* await of the first "git cat-file"; otherwise _update returns.
UpdateStatusSettles(t) ==
    /\ ~FreeSlot(t)
    /\ Top(tasks[t]).fn = "_update"
    /\ Top(tasks[t]).pc = "status"
    /\ \E success \in BOOLEAN, n \in 0..MaxChanged :
          IF success /\ n > 0
          THEN /\ tasks' = [tasks EXCEPT ![t] =
                              SubSeq(@, 1, Len(@) - 1)
                                \o << [Top(@) EXCEPT !.pc = "prefetch"],
                                      Frame("_prefetchGitFiles", "cat-file", cwd, n - 1) >>]
               /\ cwd' = GitDir
               /\ gitLaunch' = Launch("cat-file", cwd')
               /\ UNCHANGED notified
          ELSE /\ tasks' = [tasks EXCEPT ![t] = <<>>]
               /\ cwd' = CwdAfterUpdate(tasks[t])
               /\ notified' = NotifiedAfterUpdate(tasks[t])
               /\ UNCHANGED gitLaunch
    /\ UNCHANGED <<inputBox, commitOk, engineVars>>

\* A "git cat-file" has settled in _prefetchGitFiles: the loop starts the
\* next one, or the function returns through its finally block, and
\* _update after it.
PrefetchSettles(t) ==
    /\ ~FreeSlot(t)
    /\ Top(tasks[t]).fn = "_prefetchGitFiles"
    /\ IF Top(tasks[t]).left > 0
       THEN /\ tasks' = [tasks EXCEPT ![t][Len(tasks[t])].left = @ - 1]
            /\ gitLaunch' = Launch("cat-file", cwd)
            /\ UNCHANGED <<cwd, notified>>
       ELSE /\ tasks' = [tasks EXCEPT ![t] = <<>>]
            /\ cwd' = CwdAfterUpdate(SubSeq(tasks[t], 1, Len(tasks[t]) - 1))
            /\ notified' = NotifiedAfterUpdate(SubSeq(tasks[t], 1, Len(tasks[t]) - 1))
            /\ UNCHANGED gitLaunch
    /\ UNCHANGED <<inputBox, commitOk, engineVars>>

\* The git command of _stageAll, _unstageFile or _unstageAll has settled:
\* on success the handler calls this._update() without awaiting it, which
\* runs up to its await of "git status"; then the finally block of the
\* handler runs.
GitCommandSettles(t) ==
    /\ ~FreeSlot(t)
    /\ Top(tasks[t]).fn \in {"_stageAll", "_unstageFile", "_unstageAll"}
    /\ \E success \in BOOLEAN :
          IF success
          THEN /\ tasks' = [tasks EXCEPT ![t] = <<UpdateFrame(cwd)>>]
               /\ gitLaunch' = Launch("status", GitDir)
               /\ notified' = "Done"
          ELSE /\ tasks' = [tasks EXCEPT ![t] = <<>>]
               /\ notified' = "Failed"
               /\ UNCHANGED gitLaunch
    /\ cwd' = Top(tasks[t]).orig
    /\ UNCHANGED <<inputBox, commitOk, engineVars>>

\* "git add" has settled in _stageFile: on success "await this._update()"
StageFileSettles(t) ==
    /\ ~FreeSlot(t)
    /\ Top(tasks[t]).fn = "_stageFile"
    /\ Top(tasks[t]).pc = "git"
    /\ \E success \in BOOLEAN :
          IF success
          THEN /\ tasks' = [tasks EXCEPT ![t] =
                              << [Top(@) EXCEPT !.pc = "update"], UpdateFrame(cwd) >>]
               /\ cwd' = GitDir
               /\ gitLaunch' = Launch("status", cwd')
               /\ UNCHANGED notified
          ELSE /\ tasks' = [tasks EXCEPT ![t] = <<>>]
               /\ cwd' = Top(tasks[t]).orig
               /\ notified' = "Failed"
               /\ UNCHANGED gitLaunch
    /\ UNCHANGED <<inputBox, commitOk, engineVars>>

\* "git add ." has settled in _commit: executeCommand(`git commit -m ...`)
CommitAddSettles(t) ==
    /\ ~FreeSlot(t)
    /\ Top(tasks[t]).fn = "_commit"
    /\ Top(tasks[t]).pc = "add"
    /\ tasks' = [tasks EXCEPT ![t][1].pc = "commit"]
    /\ gitLaunch' = Launch("commit", cwd)
    /\ UNCHANGED <<cwd, inputBox, notified, commitOk, engineVars>>

\* "git commit" has settled in _commit, with success or not: the input box
\* is cleared, this._update() is called without awaiting it, the message is
\* shown and the finally block runs.
CommitCommandSettles(t) ==
    /\ ~FreeSlot(t)
    /\ Top(tasks[t]).fn = "_commit"
    /\ Top(tasks[t]).pc = "commit"
    /\ \E success \in BOOLEAN : commitOk' = IF success THEN "ok" ELSE "failed"
    /\ inputBox' = <<>>
    /\ tasks' = [tasks EXCEPT ![t] = <<UpdateFrame(cwd)>>]
    /\ gitLaunch' = Launch("status", GitDir)
    /\ notified' = "Successfully committed changes"
    /\ cwd' = Top(tasks[t]).orig
    /\ UNCHANGED engineVars

NextProvider ==
    \/ TypeMessage
    \/ \E t \in Tasks :
          \/ Refresh(t)
          \/ StageFile(t)
          \/ StageAll(t)
          \/ UnstageFile(t)
          \/ UnstageAll(t)
          \/ Commit(t)
          \/ UpdateStatusSettles(t)
          \/ PrefetchSettles(t)
          \/ GitCommandSettles(t)
          \/ StageFileSettles(t)
          \/ CommitAddSettles(t)
          \/ CommitCommandSettles(t)

SpecProvider == InitProvider /\ [][NextProvider]_vars

(***************************************************************************)
(* C22: when every invocation of the provider has ended, the working       *)
(* directory of the process is the one it was before the provider's first  *)
(* invocation started.                                                     *)
(***************************************************************************)
C22_CwdRestored ==
    (\A t \in Tasks : tasks[t] = <<>>) => cwd = OriginalDir

(***************************************************************************)
(* C23: every git command of the provider is started while the working     *)
(* directory of the process is the provider's git directory.               *)
(***************************************************************************)
C23_GitStartedInGitDir == gitLaunch.cwd = GitDir

(***************************************************************************)
(* C28: _commit with a message that is empty or blank starts no git        *)
(* command and leaves the input box as it is; and _commit clears the input *)
(* box and shows 'Successfully committed changes' only when "git commit"   *)
(* reported success.                                                       *)
(***************************************************************************)
C28_BlankMessage ==
    [][\A t \in Tasks :
          (Commit(t) /\ Trim(inputBox) = <<>>) =>
              (gitLaunch' = gitLaunch /\ inputBox' = inputBox /\ tasks' = tasks
               /\ cwd' = cwd)]_vars

C28_CommitOutcome ==
    [][\A t \in Tasks :
          /\ (Commit(t) /\ Trim(inputBox) = <<>>) =>
                (gitLaunch' = gitLaunch /\ inputBox' = inputBox /\ tasks' = tasks
                 /\ cwd' = cwd)
          /\ (CommitCommandSettles(t)
                /\ (inputBox' = <<>> \/ notified' = "Successfully committed changes"))
             => commitOk' = "ok"]_vars

(***************************************************************************)
(* C24: when the write step of the last sync completed and the next        *)
(* retrieval returns the list that was written (the database did not       *)
(* change), the comparison reports no drift: added, modified and deleted   *)
(* are empty and unchanged holds every current object.                     *)
(***************************************************************************)
C24_NoDriftAfterSync ==
    (pc = "compared" /\ writeOk /\ current = written) =>
        /\ comparison.added = <<>>
        /\ comparison.modified = <<>>
        /\ comparison.deleted = <<>>
        /\ comparison.unchanged = current

\* C24 for lists in which no name holds ".sql" and no schema is "schemas"
C24_NoDriftForPlainNames ==
    (/\ pc = "compared" /\ writeOk /\ current = written
     /\ \A i \in 1..Len(written) :
           /\ ReplaceSql(written[i].name) = written[i].name
           /\ written[i].schema # SchemasSegment) =>
        /\ comparison.added = <<>>
        /\ comparison.modified = <<>>
        /\ comparison.deleted = <<>>
        /\ comparison.unchanged = current

(***************************************************************************)
(* The objects the extension host keeps alive: the webview panel of        *)
(* SourceControlPanel and the DatabaseSourceControlProvider of the         *)
(* dbSourceControl command.  Neither createOrShow, revive, dispose, the    *)
(* command handler nor deactivate awaits anything, so each is one step.    *)
(* The constructors start an _update that is not awaited; it never touches *)
(* the references modelled here.                                           *)
(***************************************************************************)
CoreIdle(at) ==
    /\ pc = at
    /\ current = <<>> /\ saved = <<>> /\ comparison = NoComparison
    /\ fs = NoFs /\ written = <<>> /\ writeOk = FALSE /\ removed = {}
    /\ queryOk = TRUE
    /\ generalResults = <<>> /\ pkResults = <<>> /\ objectList = <<>>
    /\ runs = NoRuns

Live(objects) == {p \in DOMAIN objects : objects[p] = "live"}

\* the object the next "new" constructs
Fresh(objects) == Cardinality({p \in DOMAIN objects : objects[p] # "none"}) + 1

\* new SourceControlPanel(panel, extensionUri, node, repoDir)
NewPanel ==
    /\ panels' = [panels EXCEPT ![Fresh(panels)] = "live"]
    /\ currentPanel' = Fresh(panels)

\* SourceControlPanel.createOrShow: reveals the current panel when there is
\* one, and creates a webview panel and a SourceControlPanel otherwise
createOrShow ==
    /\ Fresh(panels) \in Panels
    /\ IF currentPanel # NoObject
          THEN UNCHANGED panelVars
          ELSE NewPanel
    /\ UNCHANGED <<coreVars, providerVars, extensionVars, serviceVars>>

\* SourceControlPanel.revive
revive ==
    /\ Fresh(panels) \in Panels
    /\ NewPanel
    /\ UNCHANGED <<coreVars, providerVars, extensionVars, serviceVars>>

\* SourceControlPanel.dispose of panel p: called by the onDidDispose
\* listener when the webview panel is closed, or directly; this._panel.dispose()
\* fires the listener of a panel that is still open, which runs dispose again
\* to the same effect.
PanelDispose(p) ==
    /\ panels[p] # "none"
    /\ currentPanel' = NoObject
    /\ panels' = [panels EXCEPT ![p] = "disposed"]
    /\ UNCHANGED <<coreVars, providerVars, extensionVars, serviceVars>>

\* DatabaseSourceControlProvider.dispose of the provider cur
ProviderDisposeSkipped(ps, cur) == ps

ProviderDispose(ps, cur) == [ps EXCEPT ![cur] = "disposed"]

\* how far the handler of dbSourceControl gets after disposing the previous
\* provider: getDatabaseDirectoryFromNode throws, returns nothing, the
\* SourceControlState directory is missing, or the provider is constructed
CommandOutcomes == {"throws", "noDirectory", "notInitialized", "constructed"}

\* the handler of sql-server-git-integration.dbSourceControl
dbSourceControlCommand(outcome) ==
    /\ activated
    /\ Fresh(providers) \in Providers
    /\ LET disposed == IF currentSourceControlProvider # NoObject
                          THEN ProviderDispose(providers, currentSourceControlProvider)
                          ELSE providers
       IN IF outcome = "constructed"
            THEN /\ providers' = [disposed EXCEPT ![Fresh(providers)] = "live"]
                 /\ currentSourceControlProvider' = Fresh(providers)
            ELSE /\ providers' = disposed
                 /\ currentSourceControlProvider' = NoObject
    /\ UNCHANGED <<coreVars, providerVars, panelVars, serviceVars, activated>>

\* deactivate
deactivate ==
    /\ activated
    /\ activated' = FALSE
    /\ providers' = IF currentSourceControlProvider # NoObject
                       THEN ProviderDispose(providers, currentSourceControlProvider)
                       ELSE providers
    /\ UNCHANGED <<coreVars, providerVars, panelVars, serviceVars,
                 currentSourceControlProvider>>

InitShell == CoreIdle("host") /\ HostIdle

NextShell ==
    \/ createOrShow
    \/ revive
    \/ \E p \in Panels : PanelDispose(p)
    \/ \E outcome \in CommandOutcomes : dbSourceControlCommand(outcome)
    \/ deactivate

SpecShell == InitShell /\ [][NextShell]_vars

\* C25: SourceControlPanel.currentPanel is undefined exactly when no
\* undisposed panel exists, and otherwise it is the only undisposed panel:
\* at most one panel is live, and disposing a panel never clears the
\* reference to another live panel.
C25_CurrentPanelIsTheLivePanel ==
    /\ (currentPanel = NoObject) <=> (Live(panels) = {})
    /\ currentPanel # NoObject => Live(panels) = {currentPanel}

\* C26: at most one DatabaseSourceControlProvider that was not disposed
\* exists, it is the one currentSourceControlProvider refers to, and there
\* is none after deactivate.
C26_AtMostOneProvider ==
    /\ Cardinality(Live(providers)) <= 1
    /\ Live(providers) \subseteq {currentSourceControlProvider}
    /\ ~activated => Live(providers) = {}

\* a second provider was constructed after the first, and the extension was
\* then deactivated
C26_Witness ==
    /\ providers[1] = "disposed"
    /\ providers[2] = "disposed"
    /\ ~activated

\* a failed invocation after a successful one
C26_WitnessFailedInvocation ==
    /\ providers[1] = "disposed"
    /\ providers[2] = "none"
    /\ currentSourceControlProvider = NoObject
    /\ activated

(***************************************************************************)
(* executeQuery.  A step is the code between two awaits.  Every throw and  *)
(* every rejection inside the try block reaches the catch, which logs and  *)
(* throws again: the call rejects with whatever state its pool has.        *)
(* pool: "none" (not made), "made" (new sql.ConnectionPool, not            *)
(* connected), "open" (connect resolved), "closed" (close resolved).       *)
(***************************************************************************)
Call(at, pool) == [pc |-> at, pool |-> pool]

Settled == {"resolved", "rejected"}

\* what the connection string says about authentication
AuthKinds == {"sql", "integrated", "none"}

\* executeQuery up to "await mssqlApi.getConnectionString(connectionUri, true)";
\* ok: the MSSQL extension is there and the node has a connection URI
QueryStart(c, ok) ==
    /\ calls[c].pc = "idle"
    /\ calls' = [calls EXCEPT ![c] = IF ok THEN Call("connectionString", "none")
                                            ELSE Call("rejected", "none")]
    /\ UNCHANGED <<coreVars, providerVars, panelVars, extensionVars,
                   directoryVars, repoVars>>

\* the connection string arrives: credentials in it lead to pool.connect(),
\* integrated security throws, and otherwise the user name is asked for
ConnectionStringSettles(c, auth) ==
    /\ calls[c].pc = "connectionString"
    /\ calls' = [calls EXCEPT ![c] =
                    CASE auth = "sql" -> Call("connect", "made")
                      [] auth = "integrated" -> Call("rejected", "none")
                      [] OTHER -> Call("username", "none")]
    /\ UNCHANGED <<coreVars, providerVars, panelVars, extensionVars,
                   directoryVars, repoVars>>

\* showInputBox for the user name settles
UsernameSettles(c, given) ==
    /\ calls[c].pc = "username"
    /\ calls' = [calls EXCEPT ![c] = IF given THEN Call("password", "none")
                                            ELSE Call("rejected", "none")]
    /\ UNCHANGED <<coreVars, providerVars, panelVars, extensionVars,
                   directoryVars, repoVars>>

\* showInputBox for the password settles
PasswordSettles(c, given) ==
    /\ calls[c].pc = "password"
    /\ calls' = [calls EXCEPT ![c] = IF given THEN Call("connect", "made")
                                            ELSE Call("rejected", "none")]
    /\ UNCHANGED <<coreVars, providerVars, panelVars, extensionVars,
                   directoryVars, repoVars>>

\* "await pool.connect()" settles; then pool.request().query(query) is called
ConnectSettles(c, ok) ==
    /\ calls[c].pc = "connect"
    /\ calls' = [calls EXCEPT ![c] = IF ok THEN Call("query", "open")
                                            ELSE Call("rejected", "made")]
    /\ UNCHANGED <<coreVars, providerVars, panelVars, extensionVars,
                   directoryVars, repoVars>>

\* the query rejected: the catch block rethrows, pool.close() is not reached
QueryRejected(pool) == pool

\* "await pool.request().query(query)" settles; then pool.close() is called
QuerySettles(c, ok) ==
    /\ calls[c].pc = "query"
    /\ calls' = [calls EXCEPT ![c] =
                    IF ok THEN Call("close", "open")
                          ELSE Call("rejected", QueryRejected(calls[c].pool))]
    /\ UNCHANGED <<coreVars, providerVars, panelVars, extensionVars,
                   directoryVars, repoVars>>

\* "await pool.close()" resolves and result.recordset is returned
CloseSettles(c) ==
    /\ calls[c].pc = "close"
    /\ calls' = [calls EXCEPT ![c] = Call("resolved", "closed")]
    /\ UNCHANGED <<coreVars, providerVars, panelVars, extensionVars,
                   directoryVars, repoVars>>

InitQuery == CoreIdle("sqlrunner") /\ HostIdle

NextQuery ==
    \E c \in Calls :
        \/ \E ok \in BOOLEAN : QueryStart(c, ok)
        \/ \E auth \in AuthKinds : ConnectionStringSettles(c, auth)
        \/ \E given \in BOOLEAN : UsernameSettles(c, given)
        \/ \E given \in BOOLEAN : PasswordSettles(c, given)
        \/ \E ok \in BOOLEAN : ConnectSettles(c, ok)
        \/ \E ok \in BOOLEAN : QuerySettles(c, ok)
        \/ CloseSettles(c)

SpecQuery == InitQuery /\ [][NextQuery]_vars

\* C27: every connection pool that executeQuery connected is closed when
\* executeQuery settles, whether it resolves or rejects.
C27_PoolClosedWhenSettled ==
    \A c \in Calls : calls[c].pc \in Settled => calls[c].pool # "open"

\* C27 for the calls that resolve
C27_PoolClosedWhenResolved ==
    \A c \in Calls : calls[c].pc = "resolved" => calls[c].pool = "closed"

(***************************************************************************)
(* The directory configured for a database.  A name is a sequence of       *)
(* characters.  A node carries the server name of its URN (<<>> when the   *)
(* URN is missing or does not match) and the database name the MSSQL       *)
(* extension reports for it (<<>> when it reports none).                   *)
(* databaseDirectories maps a key to a directory; <<>> stands for          *)
(* undefined and for "".                                                   *)
(***************************************************************************)
InvalidCharacters == {"\\", "/", ":", "*", "?", "\"", "<", ">", "|"}

Localhost == <<"l", "o", "c", "a", "l", "h", "o", "s", "t">>

ServerNames == {<<>>, <<"a">>, <<"a", "_", "b">>, <<"a", ":", "b">>}
DatabaseNames == {<<>>, <<"c">>, <<"b", "_", "c">>}

Nodes == [urn : ServerNames, database : DatabaseNames]

\* the directories showOpenDialog can return
Directories == {<<"D1">>, <<"D2">>}

\* name.replace(/[\\/:*?"<>|]/g, '_')
Sanitize(name) ==
    [i \in 1..Len(name) |-> IF name[i] \in InvalidCharacters THEN "_" ELSE name[i]]

\* null
NoInfo == [serverName |-> <<>>, databaseName |-> <<>>, key |-> <<>>]

\* getServerDatabaseKey(node), with the MSSQL extension active
getServerDatabaseKey(node) ==
    LET serverName == IF node.urn = <<>> THEN Localhost ELSE node.urn
        databaseName == node.database
    IN IF databaseName = <<>> THEN NoInfo
       ELSE [serverName |-> serverName,
             databaseName |-> databaseName,
             key |-> Sanitize(serverName) \o <<"_">> \o Sanitize(databaseName)]

\* currentDirectories[key]
DirectoryOf(directories, key) ==
    IF key \in DOMAIN directories THEN directories[key] ELSE <<>>

\* currentDirectories[key] = directory
WithDirectory(directories, key, directory) ==
    [k \in (DOMAIN directories) \cup {key} |->
        IF k = key THEN directory ELSE directories[k]]

\* path.join(getExtensionGlobalPath(context), key)
DatabaseRepoPath(key) == <<"global">> \o key

Task(at, node, directories, returned) ==
    [pc |-> at, node |-> node, directories |-> directories, returned |-> returned]

Returned(directory) == Task("idle", NoObject, <<>>, directory)

\* selectAndSaveDatabaseDirectory(nodes[n]) up to "await showQuickPick"
SelectAndSaveStart(n) ==
    /\ directoryTask.pc = "idle"
    /\ directoryTask' =
          IF getServerDatabaseKey(nodes[n]) = NoInfo THEN Returned(<<>>)
          ELSE Task("pick", n, databaseDirectories, <<>>)
    /\ UNCHANGED <<coreVars, providerVars, panelVars, extensionVars, queryVars,
                   repoVars, nodes, databaseDirectories>>

\* the choices offered for the key: 'keep' with an existing directory,
\* 'auto' unless the existing directory is the automatic one, 'change'
Choices(directories, key) ==
    {"cancel", "change"}
      \cup (IF DirectoryOf(directories, key) # <<>> THEN {"keep"} ELSE {})
      \cup (IF DatabaseRepoPath(key) # DirectoryOf(directories, key)
              THEN {"auto"} ELSE {})

\* showQuickPick settles with the choice
PickSettles(choice) ==
    /\ directoryTask.pc = "pick"
    /\ LET key == getServerDatabaseKey(nodes[directoryTask.node]).key
           directories == directoryTask.directories
       IN /\ choice \in Choices(directories, key)
          /\ directoryTask' =
               CASE choice = "cancel" -> Returned(<<>>)
                 [] choice = "keep" -> Returned(DirectoryOf(directories, key))
                 [] choice = "auto" ->
                      Task("update", directoryTask.node,
                           WithDirectory(directories, key, DatabaseRepoPath(key)), <<>>)
                 [] OTHER -> Task("dialog", directoryTask.node, directories, <<>>)
    /\ UNCHANGED <<coreVars, providerVars, panelVars, extensionVars, queryVars,
                   repoVars, nodes, databaseDirectories>>

\* showOpenDialog settles: with a directory, or cancelled (<<>>)
DialogSettles(directory) ==
    /\ directoryTask.pc = "dialog"
    /\ LET key == getServerDatabaseKey(nodes[directoryTask.node]).key
       IN directoryTask' =
            IF directory = <<>> THEN Returned(<<>>)
            ELSE Task("update", directoryTask.node,
                      WithDirectory(directoryTask.directories, key, directory), <<>>)
    /\ UNCHANGED <<coreVars, providerVars, panelVars, extensionVars, queryVars,
                   repoVars, nodes, databaseDirectories>>

\* config.update('databaseDirectories', currentDirectories, Global) settles;
\* a rejection is caught and "" is returned
UpdateSettles(ok) ==
    /\ directoryTask.pc = "update"
    /\ LET key == getServerDatabaseKey(nodes[directoryTask.node]).key
       IN IF ok
            THEN /\ databaseDirectories' = directoryTask.directories
                 /\ directoryTask' = Returned(DirectoryOf(directoryTask.directories, key))
            ELSE /\ UNCHANGED databaseDirectories
                 /\ directoryTask' = Returned(<<>>)
    /\ UNCHANGED <<coreVars, providerVars, panelVars, extensionVars, queryVars,
                   repoVars, nodes>>

\* getSavedDatabaseDirectory(nodes[n])
getSavedDatabaseDirectory(n) ==
    /\ directoryTask.pc = "idle"
    /\ LET dbInfo == getServerDatabaseKey(nodes[n])
       IN directoryTask' =
            IF dbInfo = NoInfo THEN Returned(<<>>)
            ELSE Returned(DirectoryOf(databaseDirectories, dbInfo.key))
    /\ UNCHANGED <<coreVars, providerVars, panelVars, extensionVars, queryVars,
                   repoVars, nodes, databaseDirectories>>

\* two database nodes of the object explorer
InitDirectory ==
    /\ CoreIdle("dirmanager")
    /\ ProviderIdle /\ ObjectsIdle /\ QueryIdle /\ RepoIdle
    /\ nodes \in [1..2 -> Nodes]
    /\ databaseDirectories = <<>>
    /\ directoryTask = IdleTask

NextDirectory ==
    \/ \E n \in DOMAIN nodes : SelectAndSaveStart(n)
    \/ \E choice \in {"cancel", "keep", "auto", "change"} : PickSettles(choice)
    \/ \E directory \in Directories \cup {<<>>} : DialogSettles(directory)
    \/ \E ok \in BOOLEAN : UpdateSettles(ok)
    \/ \E n \in DOMAIN nodes : getSavedDatabaseDirectory(n)

SpecDirectory == InitDirectory /\ [][NextDirectory]_vars

NamesOf(info) == <<info.serverName, info.databaseName>>

\* C29: getServerDatabaseKey is injective on (serverName, databaseName):
\* the entry of databaseDirectories saved for one node is never the entry of
\* a node with another server name or another database name.
C29_NoSharedEntry ==
    \A n, m \in DOMAIN nodes :
        LET a == getServerDatabaseKey(nodes[n])
            b == getServerDatabaseKey(nodes[m])
        IN (/\ a # NoInfo /\ b # NoInfo
            /\ NamesOf(a) # NamesOf(b)
            /\ a.key \in DOMAIN databaseDirectories)
           => a.key # b.key

\* C29 for names without '_' and without the characters that are replaced
PlainName(name) == \A i \in 1..Len(name) : name[i] \notin InvalidCharacters \cup {"_"}

C29_NoSharedEntryForPlainNames ==
    \A n, m \in DOMAIN nodes :
        LET a == getServerDatabaseKey(nodes[n])
            b == getServerDatabaseKey(nodes[m])
        IN (/\ a # NoInfo /\ b # NoInfo
            /\ NamesOf(a) # NamesOf(b)
            /\ PlainName(a.serverName) /\ PlainName(a.databaseName)
            /\ PlainName(b.serverName) /\ PlainName(b.databaseName)
            /\ a.key \in DOMAIN databaseDirectories)
           => a.key # b.key

(***************************************************************************)
(* initializeRepoDirectoryAndFiles.  repo is the tree at repoDir: a path   *)
(* is the sequence of its segments below repoDir, <<>> is repoDir itself.  *)
(* The function awaits nothing: a call is one step.                        *)
(***************************************************************************)
RepoDir == <<>>
RepoComparisonDir == <<<<"comparison">>>>
VersionedDir == <<<<"versioned">>>>

\* fs.existsSync(path): a directory or a file
PathExists(f, path) == path \in f.dirs \/ path \in DOMAIN f.files

\* path.join(comparisonDir, "schemas", obj.schema, obj.type)
RepoDeclaredSchemaDir(obj) == RepoComparisonDir \o DeclaredSchemaDir(obj)

\* path.join(declaredSchemaDir, `${obj.name}.sql`)
RepoFilePath(obj) == RepoComparisonDir \o FilePath(obj)

\* fs.mkdirSync(dir, {recursive: true}) under the guard !fs.existsSync(dir)
RepoMkdir(f, dir) ==
    IF PathExists(f, dir) THEN f
    ELSE [f EXCEPT !.dirs = @ \cup {SubSeq(dir, 1, k) : k \in 0..Len(dir)}]

\* The loop "for (const obj of objectList)" from its i-th object on;
\* fs.writeFileSync throws a TypeError for a definition that is null.
RECURSIVE RepoWriteObjectsFrom(_, _, _)
RepoWriteObjectsFrom(f, objs, i) ==
    IF i > Len(objs) THEN [fs |-> f, result |-> "true"]
    ELSE LET made == RepoMkdir(f, RepoDeclaredSchemaDir(objs[i]))
         IN IF objs[i].definition = NoDefinition
            THEN [fs |-> made, result |-> "threw"]
            ELSE RepoWriteObjectsFrom(
                     WriteFileSync(made, RepoFilePath(objs[i]), objs[i].definition),
                     objs, i + 1)

\* the guard without its test of the versioned directory
ComparisonExists(f) == PathExists(f, RepoComparisonDir)

\* fs.existsSync(comparisonDir), and then fs.existsSync(gitDir)
AlreadyInitialized(f) ==
    PathExists(f, RepoComparisonDir) \/ PathExists(f, VersionedDir)

\* initializeRepoDirectoryAndFiles(repoDir, objectList, gitCloneURL)
initializeRepoDirectoryAndFiles(f, objs, url) ==
    IF ~PathExists(f, RepoDir) THEN [fs |-> f, result |-> "false"]
    ELSE IF AlreadyInitialized(f) \/ url = <<>> THEN [fs |-> f, result |-> "false"]
    ELSE RepoWriteObjectsFrom(f, objs, 1)

Tree(dirs, files) == [dirs |-> dirs, files |-> files]

ReadmePath == <<<<"README">>>>

\* the repository directory before the call: missing, empty, holding
\* other files, already holding a snapshot, a clone, or both
InitialRepos ==
    { Tree({}, <<>>),
      Tree({RepoDir}, <<>>),
      Tree({RepoDir}, ReadmePath :> <<"X">>),
      Tree({RepoDir, RepoComparisonDir}, <<>>),
      Tree({RepoDir, RepoComparisonDir},
           (RepoComparisonDir \o <<<<"old">> \o SqlExtension>>) :> <<"X">>),
      Tree({RepoDir, VersionedDir}, <<>>),
      Tree({RepoDir, RepoComparisonDir, VersionedDir}, <<>>),
      Tree({RepoDir}, VersionedDir :> <<"X">>) }

\* gitCloneURL: undefined or "" (<<>>), or a URL
CloneUrls == {<<>>, <<"url">>}

InitInitialize ==
    /\ CoreIdle("repo")
    /\ ProviderIdle /\ ObjectsIdle /\ QueryIdle /\ DirectoryIdle
    /\ repo \in InitialRepos
    /\ initObjects \in {MapRows(l) : l \in CatalogObjectLists}
    /\ cloneUrl \in CloneUrls
    /\ initResult = "none"

\* the call initializeRepoDirectoryAndFiles(repoDir, initObjects, cloneUrl)
Initialize ==
    /\ pc = "repo"
    /\ pc' = "initialized"
    /\ LET done == initializeRepoDirectoryAndFiles(repo, initObjects, cloneUrl)
       IN /\ repo' = done.fs
          /\ initResult' = done.result
    /\ UNCHANGED <<cmpVars, storeVars, synthVars, runs, providerVars, panelVars,
                   extensionVars, queryVars, directoryVars, initObjects, cloneUrl>>

NextInitialize == Initialize

SpecInitialize == InitInitialize /\ [][NextInitialize]_vars

\* C30: when the repository directory is missing, or its comparison
\* directory exists, or its versioned directory exists, or no clone URL is
\* given, initializeRepoDirectoryAndFiles returns false and the tree is as
\* it was; and when it returns true every object of the list has its file,
\* with its definition, under comparison/schemas/<schema>/<type>.
C30_InitializeGuards ==
    [][(pc = "repo" /\ pc' = "initialized") =>
          /\ (\/ RepoDir \notin repo.dirs
              \/ RepoComparisonDir \in repo.dirs
              \/ VersionedDir \in repo.dirs
              \/ cloneUrl = <<>>)
                => (initResult' = "false" /\ repo' = repo)
          /\ initResult' = "true" =>
                /\ \A i \in 1..Len(initObjects) :
                      /\ RepoFilePath(initObjects[i]) \in DOMAIN repo'.files
                      /\ repo'.files[RepoFilePath(initObjects[i])]
                            = initObjects[i].definition
                /\ Cardinality(DOMAIN repo'.files \ DOMAIN repo.files)
                      = Len(initObjects)
                /\ \A q \in DOMAIN repo.files :
                      q \in DOMAIN repo'.files /\ repo'.files[q] = repo.files[q]
    ]_vars

\* a repository that holds a clone was left alone
C30_Witness ==
    /\ pc = "initialized"
    /\ initResult = "false"
    /\ VersionedDir \in repo.dirs
    /\ RepoComparisonDir \notin repo.dirs
    /\ cloneUrl # <<>>
    /\ Len(initObjects) = 2

\* an empty repository directory was filled with two files
C30_WitnessInitialized ==
    /\ pc = "initialized"
    /\ initResult = "true"
    /\ Cardinality(DOMAIN repo.files) = 2
    /\ Len(initObjects) = 2
====
